---- MODULE Spec2Model ----
(***************************************************************************)
(* Model of the annotation scripts of GuitarSet (annotation_process/):     *)
(*   mono_anal.py  - trim_pitch_track_end, main                            *)
(*   stem_anal.py  - offset_strength_multi, segment_offset, chop_sig,      *)
(*                   note_anal, main                                       *)
(*   note_anal.py  - segment_offset, main                                  *)
(*                                                                         *)
(* Conventions.                                                            *)
(*  - Python sequences are TLA+ sequences; Python index i is TLA+ index    *)
(*    i+1 (Py), Python slices are PySlice.                                 *)
(*  - Times are exact integers in hundredths of a second (0.01 s), so      *)
(*    0.06 s is 6 and the pYin step 0.01 s is 1.                           *)
(*  - A sample buffer is the range [lo, hi) of sample positions of the     *)
(*    loaded waveform that it holds (a numpy slice is such a view).        *)
(*  - The analyzer (pYin), librosa's feature extraction and peak picking   *)
(*    are external: their responses are inputs drawn from bounded sets.    *)
(***************************************************************************)
EXTENDS Integers, Sequences, FiniteSets

VARIABLES
  script,            \* which entry point this run executes
  pc,                \* "start" | "loop" | "done"
  exc,               \* "none" or the name of the exception that ended the run
  ret,               \* return value of the entry point (-1: did not return)
  pt_file,           \* rows of the pitch-track CSV file
  onoff_file,        \* rows of the onset/offset CSV file
  sr,                \* sample rate
  seg_start_time,    \* args.seg_start_time / seg_start_time
  t_step,            \* analyzer time step
  pitch_track,       \* analyzer pitch track (mono_anal: pitch_track, others: pt)
  pitch_track_trimed,\* mono_anal.main local
  st,                \* mono_anal.main local
  on_time,           \* mono_anal.main local
  off_time,          \* mono_anal.main local
  y,                 \* loaded sample buffer
  adj_on_samps,      \* onset sample positions
  y_chopt,           \* chop_sig result
  seg,               \* stem_anal.segment_offset: the segment that is analyzed
  pt,                \* analyzer pitch track inside segment_offset
  rms,               \* frame energies, as exponents: energy e^k is held as k
  S,                 \* spectrogram (dB) given to offset_strength_multi
  silence_f,         \* stem_anal.segment_offset local
  rms_diff,          \* stem_anal.segment_offset local (after the cut to min_idx)
  offset_str,        \* stem_anal.segment_offset local (after the cut to min_idx)
  to_peak_pick,      \* stem_anal.segment_offset local
  peaks,             \* what librosa.util.peak_pick returned
  offset_frames_raw, \* stem_anal.segment_offset local (after line 211)
  offset_frames,     \* stem_anal.segment_offset local (after line 214)
  offset_time,       \* offset time returned by segment_offset
  vp,                \* note_anal.segment_offset: voiced probability + 1e-12, as exponents
  log_offset_prob,   \* note_anal.segment_offset local
  offset_frame,      \* note_anal.segment_offset local
  note_min_idx,      \* note_anal.segment_offset local min_idx
  n_vp,              \* note_anal.segment_offset: len(vp) as offset_anal returned it
  adjusted_onset_times, \* stem_anal.main local
  k_iter,            \* stem_anal.main local k: segments taken from the zip so far
  outfile,           \* onset.py: the file at args.outpath
  out_log,           \* onset.py: outfile at the start and after each invocation
  n_load,            \* onset.py: calls of librosa.load so far
  n_collect,         \* onset.py: calls of vamp.collect so far
  n_write,           \* onset.py: calls of midi.write so far
  template           \* onset.py: whether tempo_template.mid can be read

ctlVars  == <<script, pc, exc, ret>>
fileVars == <<pt_file, onoff_file>>
argVars  == <<sr, seg_start_time, t_step, pitch_track>>
monoVars == <<pitch_track_trimed, st, on_time, off_time>>
chopVars == <<y, adj_on_samps, y_chopt>>
stemVars == <<seg, pt, rms, S, silence_f, rms_diff, offset_str, to_peak_pick,
              peaks, offset_frames_raw, offset_frames, offset_time>>
noteVars == <<vp, log_offset_prob, offset_frame, note_min_idx, n_vp>>
mainVars == <<adjusted_onset_times, k_iter>>
onsetVars == <<outfile, out_log, n_load, n_collect, n_write, template>>
vars     == <<ctlVars, fileVars, argVars, monoVars, chopVars, stemVars,
              noteVars, mainVars, onsetVars>>

----------------------------------------------------------------------------
(* Bounds *)
MaxTrackLen == 7     \* longest pitch track given to mono_anal
MaxBuf      == 4     \* longest buffer given to chop_sig on its own
MaxOnsets   == 3     \* most onsets given to chop_sig on its own

Pitches    == {-1, 0, 440}      \* unvoiced (negative), zero, voiced
TSteps     == {1, 2}            \* analyzer time steps: 0.01 s, 0.02 s
StartTimes == {0, 150}          \* seg_start_time: 0 s, 1.5 s

\* the files as a run starting at time start finds them: empty for the first
\* note, holding an earlier row for a later one
FilesFor(start) == IF start = 0 THEN <<>> ELSE << <<3, 5>> >>

----------------------------------------------------------------------------
(* Python helpers *)
Min(a, b) == IF a < b THEN a ELSE b
Max(a, b) == IF a > b THEN a ELSE b

Py(s, i) == s[i + 1]

\* normalisation of one slice bound against a length n
PyBound(n, a) == IF a < 0 THEN Max(n + a, 0) ELSE Min(a, n)

\* s[a:b]
PySlice(s, a, b) ==
  LET lo == PyBound(Len(s), a)
      hi == PyBound(Len(s), b)
  IN IF hi <= lo THEN <<>> ELSE SubSeq(s, lo + 1, hi)

\* zip(a, b)
Zip(a, b) == [k \in 1..Min(Len(a), Len(b)) |-> <<a[k], b[k]>>]

\* np.arange(n) * float(t_step) + start
TimeVec(n, step, start) == [k \in 1..n |-> (k - 1) * step + start]

SeqsUpTo(V, n) == UNION {[1..k -> V] : k \in 0..n}

\* the locals of segment_offset before it has run
StemIdle ==
  /\ seg = [lo |-> 0, hi |-> 0] /\ pt = <<>> /\ rms = <<>> /\ S = <<>>
  /\ silence_f = -1 /\ rms_diff = <<>> /\ offset_str = <<>>
  /\ to_peak_pick = <<>> /\ peaks = <<>> /\ offset_frames_raw = <<>>
  /\ offset_frames = <<>> /\ offset_time = -1

\* the locals of note_anal.segment_offset and stem_anal.main before they run
NoteIdle ==
  /\ vp = <<>> /\ log_offset_prob = <<>> /\ offset_frame = -1
  /\ note_min_idx = -1 /\ n_vp = -1
MainIdle == adjusted_onset_times = <<>> /\ k_iter = 0
MonoIdle == pitch_track_trimed = <<>> /\ st = -1 /\ on_time = -1 /\ off_time = -1
ChopIdle == y = [lo |-> 0, hi |-> 0] /\ adj_on_samps = <<>> /\ y_chopt = <<>>

\* a path at which no file exists
Absent == [exists |-> FALSE, notes |-> <<>>]

\* onset.py is not part of the run
OnsetIdle ==
  /\ outfile = Absent /\ out_log = <<>>
  /\ n_load = 0 /\ n_collect = 0 /\ n_write = 0 /\ template = FALSE

----------------------------------------------------------------------------
(* mono_anal.py *)

\* first while loop: "find first positive"
RECURSIVE ScanNegative(_, _)
ScanNegative(track, i) ==
  IF Py(track, i) < 0
    THEN IF i = Len(track) - 1 THEN i ELSE ScanNegative(track, i + 1)
    ELSE i

\* second while loop: "then find first negative"
RECURSIVE ScanPositive(_, _)
ScanPositive(track, i) ==
  IF Py(track, i) > 0
    THEN IF i = Len(track) - 1 THEN i ELSE ScanPositive(track, i + 1)
    ELSE i

trim_pitch_track_end(track) ==
  IF Len(track) = 0
    THEN [exc |-> "IndexError", trimmed |-> <<>>, st |-> 0]   \* pitch_track[0]
    ELSE LET s == ScanNegative(track, 0)
             e == ScanPositive(track, s)
         IN [exc |-> "none", trimmed |-> PySlice(track, s, e), st |-> s]

InitMono ==
  /\ script = "mono" /\ pc = "start" /\ exc = "none" /\ ret = -1
  /\ sr = 0
  /\ seg_start_time \in StartTimes
  /\ pt_file = FilesFor(seg_start_time) /\ onoff_file = FilesFor(seg_start_time)
  /\ t_step \in TSteps
  /\ pitch_track \in SeqsUpTo(Pitches, MaxTrackLen)
  /\ MonoIdle /\ ChopIdle /\ StemIdle /\ NoteIdle /\ MainIdle /\ OnsetIdle

\* mono_anal.main
MonoMain_mut_write ==
  /\ script = "mono" /\ pc = "start"
  /\ LET r      == trim_pitch_track_end(pitch_track)
         p_time == TimeVec(Len(r.trimmed), t_step, seg_start_time)
     IN /\ pc' = "done"
        /\ exc' = r.exc
        /\ pitch_track_trimed' = r.trimmed
        /\ st' = r.st
        /\ IF r.exc # "none"
             THEN /\ ret' = -1
                  /\ UNCHANGED <<on_time, off_time, fileVars>>
             ELSE IF Len(p_time) = 0
               THEN /\ ret' = 0
                    /\ UNCHANGED <<on_time, off_time, pt_file>>
                    /\ onoff_file' = Append(onoff_file, <<seg_start_time, seg_start_time>>)
               ELSE /\ ret' = 0
                    /\ on_time' = p_time[1]
                    /\ off_time' = p_time[Len(p_time)]
                    /\ pt_file' = pt_file \o Zip(p_time, PySlice(r.trimmed, r.st, -1))
                    /\ onoff_file' = Append(onoff_file, <<p_time[1], p_time[Len(p_time)]>>)
  /\ UNCHANGED <<script, argVars, chopVars, stemVars, noteVars, mainVars, onsetVars>>

MonoMain ==
  /\ script = "mono" /\ pc = "start"
  /\ LET r      == trim_pitch_track_end(pitch_track)
         p_time == TimeVec(Len(r.trimmed), t_step, seg_start_time)
     IN /\ pc' = "done"
        /\ exc' = r.exc
        /\ pitch_track_trimed' = r.trimmed
        /\ st' = r.st
        /\ IF r.exc # "none"
             THEN /\ ret' = -1
                  /\ UNCHANGED <<on_time, off_time, fileVars>>
             ELSE IF Len(p_time) = 0
               THEN /\ ret' = 0
                    /\ UNCHANGED <<on_time, off_time, fileVars>>
               ELSE /\ ret' = 0
                    /\ on_time' = p_time[1]
                    /\ off_time' = p_time[Len(p_time)]
                    /\ pt_file' = pt_file \o Zip(p_time, PySlice(r.trimmed, r.st, -1))
                    /\ onoff_file' = Append(onoff_file, <<p_time[1], p_time[Len(p_time)]>>)
  /\ UNCHANGED <<script, argVars, chopVars, stemVars, noteVars, mainVars, onsetVars>>

----------------------------------------------------------------------------
(* stem_anal.py: chop_sig *)

BufLen(b) == b.hi - b.lo

\* b[a:e] for a buffer b (a, e >= 0)
BufSlice(b, a, e) ==
  LET lo == b.lo + PyBound(BufLen(b), a)
      hi == b.lo + PyBound(BufLen(b), e)
  IN [lo |-> lo, hi |-> Max(lo, hi)]

\* the sample positions a buffer holds, in order
Positions(b) == [k \in 1..BufLen(b) |-> b.lo + k - 1]

chop_sig_mut_end(buf, ons) ==
  [i \in 1..Len(ons) |->
     BufSlice(buf, ons[i], IF i = Len(ons) THEN BufLen(buf) - 1 ELSE ons[i + 1])]

chop_sig(buf, ons) ==
  [i \in 1..Len(ons) |->
     BufSlice(buf, ons[i], IF i = Len(ons) THEN BufLen(buf) ELSE ons[i + 1])]

InitChop ==
  /\ script = "chop" /\ pc = "start" /\ exc = "none" /\ ret = -1
  /\ pt_file = <<>> /\ onoff_file = <<>>
  /\ sr = 0 /\ seg_start_time = 0 /\ t_step = 0 /\ pitch_track = <<>>
  /\ \E n \in 0..MaxBuf : y = [lo |-> 0, hi |-> n]
  /\ adj_on_samps \in SeqsUpTo(0..(MaxBuf + 1), MaxOnsets)
  /\ y_chopt = <<>>
  /\ MonoIdle /\ StemIdle /\ NoteIdle /\ MainIdle /\ OnsetIdle

ChopSig ==
  /\ script = "chop" /\ pc = "start"
  /\ pc' = "done"
  /\ y_chopt' = chop_sig(y, adj_on_samps)
  /\ UNCHANGED <<script, exc, ret, fileVars, argVars, monoVars, y, adj_on_samps,
                 stemVars, noteVars, mainVars, onsetVars>>

----------------------------------------------------------------------------
(* stem_anal.py: offset_strength_multi and segment_offset *)

hop_len       == 256    \* hop_len
n_fft         == 2048   \* kwargs.get('n_fft', 2048)
lag           == 1      \* lag=1
MaxSeconds    == 4      \* len(seg) > sr*4
GraceFrames   == 5      \* if i < 5: continue
FloorLn       == -33    \* e < 1e-14: e^k < 1e-14 iff k <= -33
MinLikelihood == 2      \* to_peak_pick[f] > 2
MinElapsed    == 6      \* t_vec[f] > 0.06

MaxFrames == 9          \* most frames of an analyzed segment at 25600 Hz

\* Sample rates: 128 Hz makes the 4 s cap 512 samples, 25600 Hz makes one
\* hop 0.01 s.  Both divide hop_len * 100, so frame times are exact.
SampleRates == {128, 25600}

\* segment lengths (samples) tried at each rate
SegLens(rate) ==
  IF rate = 128
    THEN {MaxSeconds * rate - 1, MaxSeconds * rate, MaxSeconds * rate + 1,
          2 * MaxSeconds * rate}
    ELSE {(n - 1) * hop_len + 100 : n \in {2, GraceFrames, GraceFrames + 1, MaxFrames}}

\* librosa.frames_to_time(frames, hop_length, sr), in 0.01 s
frames_to_time(f, hop, rate) == (f * hop * 100) \div rate

\* librosa.time_to_samples(times, sr), times in 0.01 s
time_to_samples(t, rate) == (t * rate) \div 100

\* time steps the analyzer may report at a rate: its hop, or twice its hop
AnalyzerSteps(rate) ==
  {frames_to_time(1, hop_len, rate), 2 * frames_to_time(1, hop_len, rate)}

\* number of frames librosa makes of a buffer (centered framing)
NumFrames(b) == 1 + BufLen(b) \div hop_len

\* lines 181-182
Truncate_mut_keep(b, rate) == b

Truncate(b, rate) ==
  IF BufLen(b) > rate * MaxSeconds THEN BufSlice(b, 0, rate * MaxSeconds) ELSE b

\* e < 1e-14 for an energy e = e^k
BelowFloor(k) == k <= FloorLn

\* lines 191-197: for i, e in enumerate(rms)
RECURSIVE SilenceScan_mut_nograce(_, _)
SilenceScan_mut_nograce(e, i) ==
  IF i >= Len(e) THEN Len(e) - 1
  ELSE IF BelowFloor(Py(e, i)) THEN i
  ELSE SilenceScan_mut_nograce(e, i + 1)

RECURSIVE SilenceScan(_, _)
SilenceScan(e, i) ==
  IF i >= Len(e) THEN Len(e) - 1
  ELSE IF i < GraceFrames THEN SilenceScan(e, i + 1)
  ELSE IF BelowFloor(Py(e, i)) THEN i
  ELSE SilenceScan(e, i + 1)

\* lines 198-199: -np.diff(np.log(rms)); log(e^k) = k
RmsDiff(e) == [i \in 1..(Len(e) - 1) |-> e[i] - e[i + 1]]

\* lines 142-146 for one band: np.maximum(0.0, -1 * (S[lag:] - S[:-lag]))
OnsetEnv(spec) ==
  [j \in 1..(Len(spec) - lag) |-> Max(0, -1 * (spec[j + lag] - spec[j]))]

\* lines 160-176: pad lag + n_fft // (2 * hop_length) zeros, trim to S.shape[1]
offset_strength_multi(spec) ==
  LET pad_width == lag + n_fft \div (2 * hop_len)
      padded    == [j \in 1..pad_width |-> 0] \o OnsetEnv(spec)
  IN PySlice(padded, 0, Len(spec))

\* A likelihood value d * o / e^k is held exactly as [m |-> d * o, x |-> -k],
\* standing for m * e^x (energies are at most 1, so x >= 0).
Zero == [m |-> 0, x |-> 0]
Ratio(num, k) == [m |-> num, x |-> 0 - k]

\* np.maximum(v, 0.0)
Maximum0_mut_id(v) == v

Maximum0(v) == IF v.m > 0 THEN v ELSE Zero

\* v > 2: for x >= 1 and m >= 1, m * e^x >= e > 2
Exceeds_mut_ge(v) == v.m > 0 /\ (v.x = 0 => v.m >= MinLikelihood)

Exceeds(v) == v.m > 0 /\ (v.x = 0 => v.m > MinLikelihood)

\* t_vec[f] > 0.06
LateEnough_mut_ge(f, step) == f * step >= MinElapsed

LateEnough(f, step) == f * step > MinElapsed

\* lines 201-205, with numpy's broadcasting of (min_idx,1) against rms[:-1]
ToPeakPick(e, diff0, str0) ==
  LET min_idx == Min(Len(diff0), Len(str0))
      d       == PySlice(diff0, 0, min_idx)
      o       == PySlice(str0, 0, min_idx)
      den     == PySlice(e, 0, -1)
      a       == min_idx
      b       == Len(den)
      val(i, k) == Maximum0(Ratio(d[i] * o[i], den[k]))
  IN IF a = b THEN [exc |-> "none", d |-> d, o |-> o,
                    v |-> [i \in 1..a |-> val(i, i)]]
     ELSE IF a = 1 THEN [exc |-> "none", d |-> d, o |-> o,
                         v |-> [i \in 1..b |-> val(1, i)]]
     ELSE IF b = 1 THEN [exc |-> "none", d |-> d, o |-> o,
                         v |-> [i \in 1..a |-> val(i, 1)]]
     ELSE [exc |-> "ValueError", d |-> d, o |-> o, v |-> <<>>]

\* the elements of a set of integers in increasing order
RECURSIVE Ascending(_)
Ascending(fs) ==
  IF fs = {} THEN <<>>
  ELSE LET lo == CHOOSE f \in fs : \A g \in fs : f <= g
       IN <<lo>> \o Ascending(fs \ {lo})

\* what librosa.util.peak_pick may return for a curve: frame indices in
\* increasing order, each at a non-zero value of the curve
PeakPickResponses(curve) ==
  {Ascending(fs) : fs \in SUBSET {f \in 0..(Len(curve) - 1) : Py(curve, f).m # 0}}

\* lines 211-214
FilterFrames(picked, curve, step, sil) ==
  LET raw  == SelectSeq(picked, LAMBDA f : Exceeds(Py(curve, f)))
      kept == SelectSeq(raw, LAMBDA f : LateEnough(f, step))
  IN [raw |-> raw, frames |-> IF Len(kept) = 0 THEN <<sil>> ELSE kept]

\* Responses of the external feature extraction, drawn from bounded families.
\* Energies e^k with k in RmsLevels: e^-34 is below the floor 1e-14 (still
\* above the added 1e-15), e^-1 and e^0 are loud.
RmsLevels == {FloorLn - 1, -1, 0}

\* tracks of n frames that are constant or change level once
StepTracks(n, pairs, positions) ==
  {[i \in 1..n |-> IF i <= p THEN ab[1] ELSE ab[2]] : ab \in pairs, p \in positions}

\* tracks of n frames that fall twice, by h[1] and then by h[2], to base
StairTracks(n, drops, base, firstPos, lastPos) ==
  {[i \in 1..n |-> IF i <= pq[1] THEN base + h[1] + h[2]
                   ELSE IF i <= pq[2] THEN base + h[2] ELSE base] :
     h \in drops,
     pq \in {c \in (firstPos..lastPos) \X (firstPos..lastPos) : c[1] < c[2]}}

\* energy tracks of n frames: constant, one change of level, two falls
RmsTracks(n) ==
  StepTracks(n, {ab \in RmsLevels \X RmsLevels : ab[1] = 0 \/ ab[2] = 0}, 1..n)
    \cup StairTracks(n, {<<1, 1>>}, -2, GraceFrames + 1, n - 1)

\* one-band dB spectrograms of m frames: flat, one fall, one rise, two falls
SpecTracks(m) ==
  StepTracks(m, {<<0, 0>>, <<1, 0>>, <<2, 0>>, <<3, 0>>, <<0, 1>>}, 1..m)
    \cup StairTracks(m, {<<1, 1>>, <<3, 3>>}, 0, 1, m - GraceFrames)

\* numbers of spectrogram frames tried against n energy frames
SpecCols(n) == {m \in {n - 2, n} : m >= 1}

\* analyzer pitch tracks: a fixed voiced/unvoiced pattern, short or n frames
PtPattern(len) ==
  [i \in 1..len |-> IF i % 4 = 1 THEN 440 ELSE IF i % 4 = 2 THEN -1
                    ELSE IF i % 4 = 3 THEN 0 ELSE 220]
PtTracks(n) == {PtPattern(3), PtPattern(n)}

\* lines 215 and 237: offset_times[0] + seg_start_time
OffsetTime_mut_relative(f, rate, start) == frames_to_time(f, hop_len, rate)

OffsetTime_mut_frames(f, rate, start) == f + start

OffsetTime(f, rate, start) == frames_to_time(f, hop_len, rate) + start

\* stem_anal.segment_offset (lines 180-237) on buffer b, with the external
\* responses step/track (pYin), e (rmse), spec (mel spectrogram in dB) and
\* picked (peak_pick); sets the function's locals and its three results
SegmentOffset(b, rate, start, step, track, e, spec, picked) ==
  LET cut  == Truncate(b, rate)
      sil  == SilenceScan(e, 0)
      tpp  == ToPeakPick(e, RmsDiff(e), offset_strength_multi(spec))
      filt == FilterFrames(picked, tpp.v, step, sil)
  IN /\ seg' = cut
     /\ pt' = track
     /\ rms' = e
     /\ S' = spec
     /\ silence_f' = sil
     /\ rms_diff' = tpp.d
     /\ offset_str' = tpp.o
     /\ to_peak_pick' = tpp.v
     /\ exc' = tpp.exc
     /\ t_step' = step
     /\ IF tpp.exc # "none"
          THEN /\ peaks' = <<>> /\ offset_frames_raw' = <<>> /\ offset_frames' = <<>>
               /\ offset_time' = -1 /\ pitch_track' = <<>>
          ELSE /\ peaks' = picked
               /\ offset_frames_raw' = filt.raw
               /\ offset_frames' = filt.frames
               /\ offset_time' = OffsetTime(filt.frames[1], rate, start)
               /\ pitch_track' = PySlice(track, 0, filt.frames[1])

\* the few responses tried for each segment of a whole stem (stem_anal.main):
\* loud throughout, falling silent or falling by one level after frame 7;
\* spectrogram flat or falling by 3 dB where offset_str[7] sees it
FewSteps(rate)  == {frames_to_time(1, hop_len, rate)}
FewPt(n)        == {PtPattern(n)}
FewRms(n)       == StepTracks(n, {<<0, FloorLn - 1>>, <<0, -1>>}, {GraceFrames + 3, n})
FewCols(n)      == {n}
FewSpec(m)      == StepTracks(m, {<<3, 0>>}, {3, m})

\* the external responses to one call of segment_offset on buffer b
CallSegmentOffset(b, rate, start, wide) ==
  LET n == NumFrames(Truncate(b, rate)) IN
  \E step \in IF wide THEN AnalyzerSteps(rate) ELSE FewSteps(rate),
     track \in IF wide THEN PtTracks(n) ELSE FewPt(n),
     e \in IF wide THEN RmsTracks(n) ELSE FewRms(n) :
    \E m \in IF wide THEN SpecCols(n) ELSE FewCols(n) :
      \E spec \in IF wide THEN SpecTracks(m) ELSE FewSpec(m) :
        \E picked \in PeakPickResponses(
                        ToPeakPick(e, RmsDiff(e), offset_strength_multi(spec)).v) :
          SegmentOffset(b, rate, start, step, track, e, spec, picked)

\* rows of the pitch-track file for a returned pitch track (lines 300-301)
PtRows(track, step, start) ==
  [i \in 1..Len(track) |-> <<start + (i - 1) * step, track[i]>>]

InitStemNote ==
  /\ script = "stem_note" /\ pc = "start" /\ exc = "none" /\ ret = -1
  /\ sr \in SampleRates
  /\ seg_start_time \in StartTimes
  /\ pt_file = FilesFor(seg_start_time) /\ onoff_file = FilesFor(seg_start_time)
  /\ t_step = 0 /\ pitch_track = <<>>
  /\ \E len \in SegLens(sr), o \in (IF sr = 128 THEN {0, 7} ELSE {0}) :
       y = [lo |-> o, hi |-> o + len]
  /\ adj_on_samps = <<>> /\ y_chopt = <<>>
  /\ MonoIdle /\ StemIdle /\ NoteIdle /\ MainIdle /\ OnsetIdle

\* stem_anal.note_anal (lines 295-306)
StemNoteAnal_mut_truncate ==
  /\ script = "stem_note" /\ pc = "start"
  /\ CallSegmentOffset(y, sr, seg_start_time, TRUE)
  /\ pc' = "done"
  /\ IF exc' # "none"
       THEN ret' = -1 /\ UNCHANGED fileVars
       ELSE /\ ret' = 0
            /\ pt_file' = PtRows(pitch_track', t_step', seg_start_time)
            /\ onoff_file' = << <<seg_start_time, offset_time'>> >>
  /\ UNCHANGED <<script, sr, seg_start_time, monoVars, chopVars, noteVars, mainVars,
                 onsetVars>>

StemNoteAnal ==
  /\ script = "stem_note" /\ pc = "start"
  /\ CallSegmentOffset(y, sr, seg_start_time, TRUE)
  /\ pc' = "done"
  /\ IF exc' # "none"
       THEN ret' = -1 /\ UNCHANGED fileVars
       ELSE /\ ret' = 0
            /\ pt_file' = pt_file \o PtRows(pitch_track', t_step', seg_start_time)
            /\ onoff_file' = Append(onoff_file, <<seg_start_time, offset_time'>>)
  /\ UNCHANGED <<script, sr, seg_start_time, monoVars, chopVars, noteVars, mainVars,
                 onsetVars>>

\* stem_anal.main (lines 308-337)

MaxMainOnsets == 3      \* most onsets in the annotation given to stem_anal.main

OnsetSpacing == GraceFrames + 4   \* hops between two annotated onsets tried

\* onset annotations: increasing onset times (0.01 s) on a grid
OnsetLists ==
  {Ascending({OnsetSpacing * i : i \in picks}) : picks \in SUBSET (0..(MaxMainOnsets - 1))}

InitStemMain ==
  /\ script = "stem_main" /\ pc = "start" /\ exc = "none" /\ ret = -1
  /\ \E start \in StartTimes : pt_file = FilesFor(start) /\ onoff_file = FilesFor(start)
  /\ sr = 25600
  /\ seg_start_time = 0 /\ t_step = 0 /\ pitch_track = <<>>
  /\ y = [lo |-> 0, hi |-> OnsetSpacing * MaxMainOnsets * hop_len + 100]
  /\ adj_on_samps = <<>> /\ y_chopt = <<>>
  /\ adjusted_onset_times \in OnsetLists
  /\ k_iter = 0
  /\ MonoIdle /\ StemIdle /\ NoteIdle /\ OnsetIdle

\* lines 309-321: load, chop, clear both files
StemMainStart ==
  /\ script = "stem_main" /\ pc = "start"
  /\ adj_on_samps' = [i \in 1..Len(adjusted_onset_times) |->
                        time_to_samples(adjusted_onset_times[i], sr)]
  /\ y_chopt' = chop_sig(y, adj_on_samps')
  /\ pt_file' = <<>>
  /\ onoff_file' = <<>>
  /\ k_iter' = 0
  /\ IF Min(Len(y_chopt'), Len(adjusted_onset_times)) = 0
       THEN pc' = "done" /\ ret' = 0
       ELSE pc' = "loop" /\ ret' = ret
  /\ UNCHANGED <<script, exc, argVars, monoVars, y, stemVars, noteVars,
                 adjusted_onset_times, onsetVars>>

\* rows written for a returned pitch track by lines 330-332: voiced frames only
VoicedRows_mut_all(track, step, start) == PtRows(track, step, start)

VoicedRows(track, step, start) ==
  SelectSeq(PtRows(track, step, start), LAMBDA row : row[2] > 0)

\* lines 322-337: one pass of the loop over zip(y_chopt, adjusted_onset_times)
StemMainIter ==
  /\ script = "stem_main" /\ pc = "loop"
  /\ k_iter < Min(Len(y_chopt), Len(adjusted_onset_times))
  /\ LET start == adjusted_onset_times[k_iter + 1] IN
       /\ seg_start_time' = start
       /\ CallSegmentOffset(y_chopt[k_iter + 1], sr, start, FALSE)
       /\ k_iter' = k_iter + 1
       /\ IF exc' # "none"
            THEN /\ pc' = "done" /\ ret' = -1
                 /\ UNCHANGED fileVars
            ELSE /\ pt_file' = pt_file \o VoicedRows(pitch_track', t_step', start)
                 /\ onoff_file' = Append(onoff_file, <<start, offset_time'>>)
                 /\ IF k_iter' = Min(Len(y_chopt), Len(adjusted_onset_times))
                      THEN pc' = "done" /\ ret' = 0
                      ELSE pc' = "loop" /\ ret' = ret
  /\ UNCHANGED <<script, sr, monoVars, chopVars, noteVars, adjusted_onset_times,
                 onsetVars>>

----------------------------------------------------------------------------
(* note_anal.py: segment_offset and main *)

StartFrame  == 10       \* offset_frame = 10
ThresholdX2 == 17       \* log_offset_prob[offset_frame] < 8.5, both sides doubled

MaxNoteFrames == 12     \* most frames of a note given to note_anal

\* line 106-107: the while loop
OffsetFrameScan_mut_stop(lop, f) == f

RECURSIVE OffsetFrameScan(_, _)
OffsetFrameScan(lop, f) ==
  IF f < Len(lop) /\ 2 * Py(lop, f) < ThresholdX2
    THEN OffsetFrameScan(lop, f + 1)
    ELSE f

\* line 102: -np.log(rms * vp) for rms = e^a, vp = e^b
LogOffsetProb(e, v) == [i \in 1..Len(e) |-> 0 - (e[i] + v[i])]

\* positions at which the note's tracks may change level
NotePositions(n) == {StartFrame, StartFrame + 1, StartFrame + 2, n}

\* energy tracks (exponents) and voiced-probability tracks (exponents of
\* vp + 1e-12, which lies between e^-27.7 and about 1)
NoteRmsTracks(n) ==
  StepTracks(n, {<<0, 0>>, <<0, -4>>, <<0, -9>>, <<-4, 0>>}, NotePositions(n))
NoteVpTracks(n) ==
  StepTracks(n, {<<0, 0>>, <<0, -4>>, <<0, -27>>, <<-4, 0>>}, NotePositions(n))
NoteVpLens(n) == {n - 1, n, n + 1}

NoteLens == {(n - 1) * hop_len + 100 : n \in {2, StartFrame, StartFrame + 1, MaxNoteFrames}}

InitNote ==
  /\ script = "note" /\ pc = "start" /\ exc = "none" /\ ret = -1
  /\ sr = 25600
  /\ seg_start_time \in StartTimes
  /\ pt_file = FilesFor(seg_start_time) /\ onoff_file = FilesFor(seg_start_time)
  /\ t_step = 0 /\ pitch_track = <<>>
  /\ \E len \in NoteLens : y = [lo |-> 0, hi |-> len]
  /\ adj_on_samps = <<>> /\ y_chopt = <<>>
  /\ MonoIdle /\ StemIdle /\ NoteIdle /\ MainIdle /\ OnsetIdle

\* note_anal.segment_offset (lines 94-131) with the responses step/track/v of
\* pYin and e of rmse
NoteSegmentOffset(b, rate, start, step, track, e, v) ==
  LET cut     == Min(Len(v), Len(e))
      vcut    == PySlice(v, 0, cut)
      ecut    == PySlice(e, 0, cut)
      lop     == LogOffsetProb(ecut, vcut)
      frame   == OffsetFrameScan(lop, StartFrame)
  IN /\ n_vp' = Len(v)
     /\ note_min_idx' = cut
     /\ vp' = vcut
     /\ rms' = ecut
     /\ pt' = track
     /\ log_offset_prob' = lop
     /\ offset_frame' = frame
     /\ offset_time' = frames_to_time(frame, hop_len, rate) + start
     /\ pitch_track' = PySlice(track, 0, frame)
     /\ t_step' = step

\* note_anal.main (lines 134-147)
NoteMain ==
  /\ script = "note" /\ pc = "start"
  /\ LET n == NumFrames(y) IN
     \E step \in AnalyzerSteps(sr), track \in PtTracks(n), e \in NoteRmsTracks(n) :
       \E nv \in NoteVpLens(n) :
         \E v \in NoteVpTracks(nv) :
           NoteSegmentOffset(y, sr, seg_start_time, step, track, e, v)
  /\ pc' = "done" /\ ret' = 0
  /\ pt_file' = pt_file \o PtRows(pitch_track', t_step', seg_start_time)
  /\ onoff_file' = Append(onoff_file, <<seg_start_time, offset_time'>>)
  /\ UNCHANGED <<script, exc, sr, seg_start_time, monoVars, chopVars, mainVars,
                 seg, S, silence_f, rms_diff, offset_str, to_peak_pick, peaks,
                 offset_frames_raw, offset_frames, onsetVars>>

----------------------------------------------------------------------------
(* onset.py: rough_midi and build_midi_from_output *)

MaxRuns  == 3           \* most invocations of rough_midi in a row
MaxNotes == 2           \* most notes the analyzer reports for a stem

Velocity == 100         \* velocity=100

\* int(round(librosa.hz_to_midi(hz))) = round(12 * log2(hz / 440) + 69) for
\* the frequencies tried (450 Hz is 69.39, 427 Hz is 68.48)
HzToMidi(hz) ==
  CASE hz = 220 -> 57
    [] hz = 427 -> 68
    [] hz = 440 -> 69
    [] hz = 450 -> 69

\* notes the analyzer may report: frequency, start and duration (0.01 s)
PyinNotes ==
  [values : {220, 427, 450}, timestamp : {0, 50}, duration : {25}]

PyinNoteOutputs == SeqsUpTo(PyinNotes, MaxNotes)

\* lines 35-54: one instrument holding one note for each reported note
build_midi_from_output(pyin_note_output) ==
  [i \in 1..Len(pyin_note_output) |->
     LET note == pyin_note_output[i] IN
     [velocity |-> Velocity,
      pitch    |-> HzToMidi(note.values),
      start    |-> note.timestamp,
      end      |-> note.timestamp + note.duration]]

\* a file found at args.outpath before the first invocation
ExistingMidi ==
  [exists |-> TRUE,
   notes  |-> <<[velocity |-> Velocity, pitch |-> 40, start |-> 0, end |-> 100]>>]

\* os.path.exists(args.outpath)
os_path_exists_mut_never(f) == FALSE

os_path_exists(f) == f.exists

InitOnset ==
  /\ script = "onset" /\ pc = "start" /\ exc = "none" /\ ret = -1
  /\ pt_file = <<>> /\ onoff_file = <<>>
  /\ sr = 0 /\ seg_start_time = 0 /\ t_step = 0 /\ pitch_track = <<>>
  /\ outfile \in {Absent, ExistingMidi}
  /\ out_log = <<outfile>>
  /\ n_load = 0 /\ n_collect = 0 /\ n_write = 0
  /\ template \in BOOLEAN
  /\ MonoIdle /\ ChopIdle /\ StemIdle /\ NoteIdle /\ MainIdle

\* one invocation of rough_midi (lines 9-32)
rough_midi ==
  /\ script = "onset" /\ Len(out_log) <= MaxRuns
  /\ pc' = "done"
  /\ IF os_path_exists(outfile)
       THEN /\ ret' = 0 /\ exc' = "none"
            /\ UNCHANGED <<outfile, n_load, n_collect, n_write>>
       ELSE /\ n_load' = n_load + 1
            /\ n_collect' = n_collect + 1
            /\ \E pyin_note_output \in PyinNoteOutputs :
                 IF template
                   THEN /\ outfile' = [exists |-> TRUE,
                                       notes  |-> build_midi_from_output(pyin_note_output)]
                        /\ n_write' = n_write + 1
                        /\ ret' = 0 /\ exc' = "none"
                   ELSE /\ ret' = -1 /\ exc' = "IOError"
                        /\ UNCHANGED <<outfile, n_write>>
  /\ out_log' = Append(out_log, outfile')
  /\ UNCHANGED <<script, fileVars, argVars, monoVars, chopVars, stemVars, noteVars,
                 mainVars, template>>

----------------------------------------------------------------------------
(* Specifications: one script each, and all of them *)

Init == InitMono \/ InitChop \/ InitStemNote \/ InitStemMain \/ InitNote \/ InitOnset

Next ==
  \/ MonoMain \/ ChopSig \/ StemNoteAnal \/ StemMainStart \/ StemMainIter
  \/ NoteMain \/ rough_midi

Spec == Init /\ [][Next]_vars

SpecMono == InitMono /\ [][MonoMain]_vars
SpecChop == InitChop /\ [][ChopSig]_vars
SpecStemNote == InitStemNote /\ [][StemNoteAnal]_vars
SpecStemMain == InitStemMain /\ [][StemMainStart \/ StemMainIter]_vars
SpecNote == InitNote /\ [][NoteMain]_vars
SpecOnset == InitOnset /\ [][rough_midi]_vars

----------------------------------------------------------------------------
(* Claims about mono_anal.py *)

MonoDone == script = "mono" /\ pc = "done"

AllNonPositive(track) == \A k \in 1..Len(track) : track[k] <= 0
HasPositive(track)    == \E k \in 1..Len(track) : track[k] > 0

\* Python index of the first positive-valued frame
FirstVoiced(track) ==
  CHOOSE i \in 0..(Len(track) - 1) :
    /\ Py(track, i) > 0
    /\ \A j \in 0..(i - 1) : Py(track, j) <= 0

\* Python index of the first non-positive frame after s, or the track length
VoicedEnd(track, s) ==
  CHOOSE e \in s..Len(track) :
    /\ \A j \in s..(e - 1) : Py(track, j) > 0
    /\ e < Len(track) => Py(track, e) <= 0

C1_Scenario ==
  /\ MonoDone
  /\ pitch_track = <<-1, -1, 440, 440, 440, -1, -1>>
  /\ t_step = 1
  /\ seg_start_time = 0

\* C1: for the track [-1,-1,440,440,440,-1,-1] at step 0.01 s and start 0,
\* trimming yields [440,440,440] with start index 2 and main writes the
\* onset/offset row (0.02 s, 0.04 s).
C1_EndToEnd ==
  C1_Scenario =>
    /\ exc = "none"
    /\ pitch_track_trimed = <<440, 440, 440>>
    /\ st = 2
    /\ on_time = 2
    /\ off_time = 4
    /\ onoff_file[Len(onoff_file)] = <<2, 4>>

\* C2: on an all-non-positive track of any length (0 and 1 included)
\* trim_pitch_track_end raises no index error and returns an empty
\* sub-sequence with start index len or len-1.
C2_AllUnvoiced ==
  (MonoDone /\ AllNonPositive(pitch_track)) =>
    /\ exc = "none"
    /\ pitch_track_trimed = <<>>
    /\ st \in {Len(pitch_track), Len(pitch_track) - 1}

\* C3: on a track with a positive value trim_pitch_track_end returns the
\* index of the first positive frame and exactly the first maximal run of
\* positive values.
C3_FirstVoicedRun ==
  (MonoDone /\ HasPositive(pitch_track)) =>
    /\ exc = "none"
    /\ st = FirstVoiced(pitch_track)
    /\ pitch_track_trimed =
         PySlice(pitch_track, FirstVoiced(pitch_track),
                 VoicedEnd(pitch_track, FirstVoiced(pitch_track)))

\* C12: when the trimmed pitch track is empty, mono_anal.main adds no row to
\* the pitch-track file and none to the onset/offset file (both are left as
\* the run found them) and returns 0.
C12_DroppedNote ==
  (MonoDone /\ exc = "none" /\ pitch_track_trimed = <<>>) =>
    /\ ret = 0
    /\ pt_file = FilesFor(seg_start_time)
    /\ onoff_file = FilesFor(seg_start_time)

C12_Witness ==
  /\ MonoDone /\ exc = "none"
  /\ pitch_track = <<-1, 440>>
  /\ pitch_track_trimed = <<>>
  /\ seg_start_time = 150
  /\ ret = 0
  /\ onoff_file = << <<3, 5>> >>

----------------------------------------------------------------------------
(* Claims about chop_sig *)

ChopDone == script = "chop" /\ pc = "done"

\* non-decreasing onset positions inside a buffer of n samples
SortedWithin(ons, n) ==
  /\ \A i \in 1..Len(ons) : 0 <= ons[i] /\ ons[i] <= n
  /\ \A i \in 1..(Len(ons) - 1) : ons[i] <= ons[i + 1]

\* the positions a, a+1, ..., b-1
SeqRange(a, b) == [k \in 1..(b - a) |-> a + k - 1]

RECURSIVE Flatten(_)
Flatten(segs) ==
  IF Len(segs) = 0 THEN <<>>
  ELSE Positions(Head(segs)) \o Flatten(Tail(segs))

\* C4: for N non-decreasing onsets inside the buffer chop_sig yields N
\* segments in onset order, segment i = y[onset_i : onset_{i+1}], the last
\* one y[onset_{N-1} : len(y)], and their concatenation is y[onset_0 : len(y)].
C4_ChopSegments ==
  (ChopDone /\ SortedWithin(adj_on_samps, BufLen(y))) =>
    LET N == Len(adj_on_samps) IN
    /\ Len(y_chopt) = N
    /\ \A i \in 1..N :
         Positions(y_chopt[i]) =
           SeqRange(adj_on_samps[i],
                    IF i = N THEN BufLen(y) ELSE adj_on_samps[i + 1])
    /\ N > 0 => Flatten(y_chopt) = SeqRange(adj_on_samps[1], BufLen(y))

C4_Witness ==
  /\ ChopDone
  /\ SortedWithin(adj_on_samps, BufLen(y))
  /\ Len(adj_on_samps) >= 2
  /\ adj_on_samps[1] < adj_on_samps[2]
  /\ adj_on_samps[Len(adj_on_samps)] < BufLen(y)
  /\ Len(y_chopt) = Len(adj_on_samps)

----------------------------------------------------------------------------
(* Claims about stem_anal.segment_offset *)

StemNoteDone == script = "stem_note" /\ pc = "done"
StemReturned == StemNoteDone /\ exc = "none"

\* the returned offset time relative to the segment start
Elapsed == offset_time - seg_start_time

\* the likelihood m * e^x at frame f of the curve
AtLeastTwo(v)  == v.m > 0 /\ (v.x = 0 => v.m >= 2)
MoreThanTwo(v) == v.m > 0 /\ (v.x = 0 => v.m > 2)

\* candidates kept when the thresholds 2.0 and 0.06 s are themselves kept
KeptInclusive ==
  SelectSeq(peaks, LAMBDA f : AtLeastTwo(Py(to_peak_pick, f)) /\ f * t_step >= 6)

\* candidates kept when the thresholds 2.0 and 0.06 s are themselves discarded
KeptStrict ==
  SelectSeq(peaks, LAMBDA f : MoreThanTwo(Py(to_peak_pick, f)) /\ f * t_step > 6)

\* frames from index 5 on whose energy is below 1e-14
SilentFrames == {i \in 5..(Len(rms) - 1) : Py(rms, i) <= FloorLn}

SetMin(fs) == CHOOSE f \in fs : \A g \in fs : f <= g

\* C5: no offset time returned by segment_offset is earlier than 0.06 s after
\* its segment start, whichever of the three outcomes produced it.
C5_NoEarlyOffset == StemReturned => Elapsed >= 6

\* C5 (amended): the returned offset is the time of the detected frame f; a
\* frame from a surviving peak has f * t_step > 0.06 s, so its offset is later
\* than 0.06 s whenever the analyzer step is at most one hop (256/sr s); the
\* silence frame is only known to be frame 5 or later and the last frame is
\* frame n-1, both of which may lie before 0.06 s.
C5_OffsetLowerBounds ==
  StemReturned =>
    LET f == offset_frames[1] IN
    /\ Elapsed = frames_to_time(f, hop_len, sr)
    /\ KeptStrict # <<>> =>
         /\ f * t_step > 6
         /\ t_step <= frames_to_time(1, hop_len, sr) => Elapsed > 6
    /\ (KeptStrict = <<>> /\ SilentFrames # {}) => f >= 5
    /\ (KeptStrict = <<>> /\ SilentFrames = {}) => f = Len(rms) - 1

C5_Witness ==
  /\ StemReturned
  /\ KeptStrict # <<>>
  /\ t_step = frames_to_time(1, hop_len, sr)
  /\ offset_frames[1] * t_step = 7
  /\ Elapsed = 7

\* C6: when no candidate survives, the detected frame is the smallest frame
\* index i >= 5 with energy below 1e-14, or the last frame index when there
\* is none; a frame below index 5 is never taken as silence frame in a
\* segment of more than 5 frames.
C6_Fallback ==
  (StemReturned /\ KeptStrict = <<>>) =>
    /\ SilentFrames # {} => offset_frames = <<SetMin(SilentFrames)>>
    /\ SilentFrames = {} => offset_frames = <<Len(rms) - 1>>
    /\ Len(rms) > 5 => offset_frames[1] >= 5

C6_Witness ==
  /\ StemReturned
  /\ KeptStrict = <<>>
  /\ Len(rms) > 6
  /\ \A i \in 0..(Len(rms) - 1) : Py(rms, i) <= FloorLn
  /\ offset_frames = <<5>>

\* C7: a candidate is discarded exactly when its likelihood is below 2.0 or
\* its time is before 0.06 s (a candidate at exactly 2.0 or 0.06 s is kept);
\* when a candidate survives, the detected frame is the earliest survivor
\* and the fallback is not used.
C7_FilterInclusive ==
  (StemReturned /\ KeptInclusive # <<>>) =>
    /\ offset_frames = KeptInclusive
    /\ \A i \in 1..Len(KeptInclusive) : offset_frames[1] <= KeptInclusive[i]

\* C7 (amended): a candidate is discarded exactly when its likelihood is at
\* most 2.0 or its time is at most 0.06 s; when a candidate survives, the
\* detected frame is the earliest survivor and the fallback is not used.
C7_FilterStrict ==
  StemReturned =>
    /\ offset_frames_raw =
         SelectSeq(peaks, LAMBDA f : MoreThanTwo(Py(to_peak_pick, f)))
    /\ KeptStrict # <<>> =>
         /\ offset_frames = KeptStrict
         /\ \A i \in 1..Len(KeptStrict) : offset_frames[1] <= KeptStrict[i]
         /\ Elapsed = frames_to_time(KeptStrict[1], hop_len, sr)

C7_Witness ==
  /\ StemReturned
  /\ Len(peaks) = 2
  /\ peaks[1] * t_step = 6
  /\ MoreThanTwo(Py(to_peak_pick, peaks[1]))
  /\ offset_frames = <<peaks[2]>>
  /\ silence_f # peaks[2]

\* the sign-carrying numerator of the raw combined value behind element i
RawNum(i) ==
  IF Len(to_peak_pick) = Len(rms_diff)
    THEN rms_diff[i] * offset_str[i]
    ELSE rms_diff[1] * offset_str[1]

\* C9: every element of to_peak_pick is >= 0, and it is 0 exactly when the
\* raw combined value is negative or zero.
C9_LikelihoodFloored ==
  (StemNoteDone /\ exc = "none") =>
    \A i \in 1..Len(to_peak_pick) :
      /\ to_peak_pick[i].m >= 0
      /\ (to_peak_pick[i].m = 0) <=> (RawNum(i) <= 0)

C9_Witness ==
  /\ StemReturned
  /\ Len(to_peak_pick) = Len(rms_diff)
  /\ \E i \in 1..Len(to_peak_pick) :
       rms_diff[i] < 0 /\ offset_str[i] > 0 /\ to_peak_pick[i] = Zero

\* C10: a segment of at most 4*sr samples is analyzed unchanged; a longer one
\* is replaced by exactly its first 4*sr samples before any analysis, so the
\* analyzed length is min(len(seg), 4*sr).
C10_Truncation ==
  StemNoteDone =>
    /\ BufLen(y) <= 4 * sr => seg = y
    /\ BufLen(y) > 4 * sr => Positions(seg) = SubSeq(Positions(y), 1, 4 * sr)
    /\ BufLen(seg) = Min(BufLen(y), 4 * sr)
    /\ Len(rms) = 1 + Min(BufLen(y), 4 * sr) \div 256

C10_Witness ==
  /\ StemNoteDone
  /\ y.lo > 0
  /\ BufLen(y) > 4 * sr
  /\ BufLen(seg) = 4 * sr

\* C15: segment_offset returns seg_start_time plus the time of the detected
\* offset frame, the prefix of the analyzer's pitch track holding the frames
\* with index below that frame (min(offset_frame, len(pt)) of them, in
\* order), and the analyzer's time step.
C15_ReturnValue ==
  StemReturned =>
    LET f == offset_frames[1] IN
    /\ f >= 0
    /\ offset_time = seg_start_time + (f * 256 * 100) \div sr
    /\ Len(pitch_track) = Min(f, Len(pt))
    /\ \A i \in 1..Len(pitch_track) : pitch_track[i] = pt[i]
    /\ t_step \in AnalyzerSteps(sr)
    /\ onoff_file[Len(onoff_file)] = <<seg_start_time, offset_time>>

C15_Witness ==
  /\ StemReturned
  /\ seg_start_time = 150
  /\ offset_frames[1] = 5
  /\ Len(pt) = 9
  /\ pitch_track = <<440, -1, 0, 220, 440>>
  /\ offset_time = 155

\* lengths of the two signals before the cut to min_idx (lines 199-200)
RawDiffLen == Len(RmsDiff(rms))
RawStrLen  == Len(offset_strength_multi(S))

----------------------------------------------------------------------------
(* Claims about the rows written by the scripts *)

\* C8: every onset/offset row appended to an onset/offset file by any of the
\* scripts has offset >= onset.
C8_OffsetNotBeforeOnset ==
  \A i \in 1..Len(onoff_file) : onoff_file[i][2] >= onoff_file[i][1]

C8_Witness ==
  /\ script = "stem_main" /\ pc = "done" /\ ret = 0
  /\ Len(onoff_file) >= 2
  /\ onoff_file[2][1] > 0
  /\ onoff_file[2][2] > onoff_file[2][1]

IsPrefix(a, b) == Len(a) <= Len(b) /\ SubSeq(b, 1, Len(a)) = a

\* the rows b holds after the rows of a
RowsAfter(a, b) == SubSeq(b, Len(a) + 1, Len(b))

\* the rows (seg_start_time + i * t_step, f) of a returned pitch track
TrackRows(track, step, start) ==
  [i \in 1..Len(track) |-> <<start + (i - 1) * step, track[i]>>]

C16_MonoPtRows ==
  (MonoDone /\ exc = "none" /\ pitch_track_trimed # <<>>) =>
    /\ IsPrefix(FilesFor(seg_start_time), pt_file)
    /\ RowsAfter(FilesFor(seg_start_time), pt_file) =
         TrackRows(pitch_track_trimed, t_step, seg_start_time)

StemMainRunning == script = "stem_main" /\ pc \in {"loop", "done"}

\* the rows of the last processed segment: those of its voiced frames, each
\* keeping the index it has in the returned pitch track
LastSegmentRows ==
  SelectSeq(TrackRows(pitch_track, t_step, seg_start_time), LAMBDA row : row[2] > 0)

----------------------------------------------------------------------------
(* Claims about note_anal.segment_offset *)

NoteDone == script = "note" /\ pc = "done"

\* log_offset_prob[i] < 8.5
BelowThreshold(i) == 2 * Py(log_offset_prob, i) < 17

\* C18: the detected offset frame f satisfies 10 <= f <= max(10, number of
\* frames); every frame in [10, f) has log_offset_prob below 8.5; if f is
\* less than the number of frames, log_offset_prob[f] >= 8.5; the returned
\* pitch track is pt[0:f]; vp and rms are both cut to min(len(vp), len(rms)).
C18_NoteOffsetFrame ==
  NoteDone =>
    LET f == offset_frame
        n == Len(log_offset_prob)
    IN /\ 10 <= f /\ f <= Max(10, n)
       /\ \A i \in 10..(f - 1) : BelowThreshold(i)
       /\ f < n => ~BelowThreshold(f)
       /\ Len(pitch_track) = Min(f, Len(pt))
       /\ \A i \in 1..Len(pitch_track) : pitch_track[i] = pt[i]
       /\ note_min_idx = Min(n_vp, 1 + BufLen(y) \div 256)
       /\ Len(vp) = note_min_idx /\ Len(rms) = note_min_idx /\ n = note_min_idx

C18_Witness ==
  /\ NoteDone
  /\ n_vp > Len(rms)
  /\ Len(log_offset_prob) = 12
  /\ offset_frame = 11
  /\ BelowThreshold(10)
  /\ Len(pitch_track) = 11

----------------------------------------------------------------------------
(* Claims about onset.py *)

\* invocations so far that found no file at the output path
RunsWithoutFile ==
  {i \in 1..(Len(out_log) - 1) : ~out_log[i].exists}

\* C13: an invocation of rough_midi that finds the output path existing
\* returns 0 without loading audio, calling the analyzer or writing, and
\* leaves the file unchanged; a second invocation in a row leaves the file
\* as the first left it; the file is written at most once.
C13_SkipIfExists ==
  script = "onset" =>
    /\ \A i \in 1..(Len(out_log) - 1) :
         out_log[i].exists => out_log[i + 1] = out_log[i]
    /\ (Len(out_log) > 1 /\ out_log[Len(out_log) - 1].exists) =>
         ret = 0 /\ exc = "none"
    /\ n_load = Cardinality(RunsWithoutFile)
    /\ n_collect = Cardinality(RunsWithoutFile)
    /\ \A i \in 2..(Len(out_log) - 1) : out_log[i + 1] = out_log[i]
    /\ n_write <= 1

C13_Witness ==
  /\ script = "onset"
  /\ Len(out_log) = 3
  /\ out_log[1] = Absent
  /\ Len(out_log[2].notes) = 2
  /\ out_log[3] = out_log[2]
  /\ n_load = 1 /\ n_collect = 1 /\ n_write = 1 /\ ret = 0

====
